---- MODULE Spec2Model ----
(***************************************************************************)
(* Model of zee's Editor (src/src/editor.rs): the pane registry, the       *)
(* layout wrapped with the prompt, focus cycling, key dispatch and the     *)
(* ui_loop that interleaves job completions, key input and redraws.        *)
(***************************************************************************)
EXTENDS Integers, Sequences, FiniteSets, TLC

(* ------------------------------------------------------------------ *)
(* Bounds of the model                                                 *)
(* ------------------------------------------------------------------ *)
\* add_component is not taken once next_component_id has reached this value
MaxComponentId == 5
\* number of key events stdin yields over the whole run
MaxKeys == 3
\* number of job completions the pool sends over the whole run
MaxJobs == 2

(* ------------------------------------------------------------------ *)
(* Program constants                                                   *)
(* ------------------------------------------------------------------ *)
PROMPT_ID == 0
PROMPT_HEIGHT == 1
SPLASH_ID == 1
REDRAW_LATENCY == 6
SUSTAINED_IO_REDRAW_LATENCY == 100
\* thread::sleep(Duration::from_millis(1))
FALLBACK_SLEEP == 1
\* Option::None of focus: Option<usize> and first_event_time
None == -1
\* Option::<Layout>::None
NoLayout == [tag |-> "None"]

\* the syntect theme keys of self.themes (field .2), indexed by theme_index + 1
themes == <<"gruvbox-dark-soft", "base16-mocha.dark", "Solarized (dark)">>
\* SyntaxThemeSet::load_defaults() always holds these; the rest comes from
\* settings.syntax_themes and may or may not hold "gruvbox-dark-soft"
DefaultSyntaxThemes == {"base16-mocha.dark", "Solarized (dark)"}

\* Key events the loop tells apart
GlobalKeys == {"Ctrl-o", "Ctrl-q", "Ctrl-t"}
Keys == GlobalKeys \cup {"Ctrl-c", "Char"}

\* Classes of paths handed to open_file, by what the file system answers
Paths == {"existing", "missing", "denied", "unreadable"}
\* costs (ms) a single key_press may take
KeyCosts == {0, 50}

(* ------------------------------------------------------------------ *)
(* Layout (ui::components::Layout)                                     *)
(* ------------------------------------------------------------------ *)
Stretched == [kind |-> "Stretched", size |-> 1]
Fixed(n) == [kind |-> "Fixed", size |-> n]

Component(id) == [tag |-> "Component", id |-> id]
Node(direction, children) ==
    [tag |-> "Node", direction |-> direction, children |-> children]
LayoutNodeFlex(node, flex) == [node |-> node, flex |-> flex]

\* Layout::vertical(a, b)
vertical(a, b) == Node("Vertical", <<a, b>>)

RECURSIVE Leaves(_)
\* depth-first, left-to-right leaf ids of a layout
Leaves(l) ==
    CASE l.tag = "Component" -> <<l.id>>
      [] l.tag = "Node" ->
             LET RECURSIVE Cat(_)
                 Cat(cs) == IF cs = <<>> THEN <<>>
                            ELSE Leaves(Head(cs).node) \o Cat(Tail(cs))
             IN Cat(l.children)
      [] OTHER -> <<>>

\* Layout::compute(frame, &mut 1, out): one LaidComponentId per leaf, with
\* frame_id counting up from 1 in traversal order
compute(l) ==
    LET ids == Leaves(l)
    IN [i \in 1..Len(ids) |-> [id |-> ids[i], frame_id |-> i]]

\* Layout::add_left(id, flex)
add_left(l, id, flex) ==
    IF l.tag = "Node" /\ l.direction = "Horizontal"
    THEN Node("Horizontal", <<LayoutNodeFlex(Component(id), flex)>> \o l.children)
    ELSE Node("Horizontal", <<LayoutNodeFlex(Component(id), flex),
                              LayoutNodeFlex(l, Stretched)>>)

RECURSIVE remove_component_id(_, _)
\* Layout::remove_component_id(id) -> Option<Layout>; None when nothing is left
remove_component_id(l, id) ==
    IF l.tag = "Component"
    THEN IF l.id = id THEN NoLayout ELSE l
    ELSE LET RECURSIVE Keep(_)
             Keep(cs) ==
                 IF cs = <<>> THEN <<>>
                 ELSE LET r == remove_component_id(Head(cs).node, id)
                      IN IF r = NoLayout THEN Keep(Tail(cs))
                         ELSE <<LayoutNodeFlex(r, Head(cs).flex)>> \o Keep(Tail(cs))
             kept == Keep(l.children)
         IN IF kept = <<>> THEN NoLayout ELSE Node(l.direction, kept)

(* ------------------------------------------------------------------ *)
(* Editor: layout wrapping                                             *)
(* ------------------------------------------------------------------ *)
wrap_layout_with_prompt(layout) ==
    vertical(
        LayoutNodeFlex(IF layout = NoLayout THEN Component(SPLASH_ID) ELSE layout,
                       Stretched),
        LayoutNodeFlex(Component(PROMPT_ID), Fixed(PROMPT_HEIGHT)))

unwrap_prompt_from_layout(layout) ==
    IF layout.tag = "Component" THEN NoLayout
    ELSE IF layout.direction = "Vertical" THEN layout.children[1].node
    ELSE NoLayout

(* ------------------------------------------------------------------ *)
(* Editor: focus cycling                                               *)
(* ------------------------------------------------------------------ *)
\* Vec::swap_remove(index): the last element takes the removed one's place
swap_remove(s, index) ==
    LET n == Len(s)
    IN IF index = n THEN SubSeq(s, 1, n - 1)
       ELSE [SubSeq(s, 1, n - 1) EXCEPT ![index] = s[n]]

RECURSIVE remove_reserved(_)
\* while let Some(index) = position(|laid| laid.id < 2) { swap_remove(index) }
remove_reserved(s) ==
    IF \E i \in 1..Len(s) : s[i].id < 2
    THEN LET index == CHOOSE i \in 1..Len(s) :
                          /\ s[i].id < 2
                          /\ \A j \in 1..(i - 1) : ~(s[j].id < 2)
         IN remove_reserved(swap_remove(s, index))
    ELSE s

RECURSIVE sort_by_id(_)
\* mutant of sort_by_frame_id: the laid components sorted by pane id
sort_by_id(s) ==
    IF s = <<>> THEN <<>>
    ELSE LET rest == sort_by_id(Tail(s))
             x == Head(s)
             k == Cardinality({i \in 1..Len(rest) : rest[i].id < x.id})
         IN SubSeq(rest, 1, k) \o <<x>> \o SubSeq(rest, k + 1, Len(rest))

RECURSIVE sort_by_frame_id(_)
\* sort_by_key(|laid| laid.frame_id): stable insertion into the sorted tail
sort_by_frame_id(s) ==
    IF s = <<>> THEN <<>>
    ELSE LET rest == sort_by_frame_id(Tail(s))
             x == Head(s)
             k == Cardinality({i \in 1..Len(rest) : rest[i].frame_id < x.frame_id})
         IN SubSeq(rest, 1, k) \o <<x>> \o SubSeq(rest, k + 1, Len(rest))

\* position(|laid| laid.id == focus), 0-based, or None
position(s, id) ==
    IF \E i \in 1..Len(s) : s[i].id = id
    THEN (CHOOSE i \in 1..Len(s) :
              s[i].id = id /\ \A j \in 1..(i - 1) : s[j].id # id) - 1
    ELSE None

\* mutant of next_index: Previous stops at the first pane instead of wrapping
next_index_no_wrap(direction, index, len_components) ==
    IF direction = "Next" THEN (index + 1) % len_components
    ELSE IF index = 0 THEN 0 ELSE index - 1

\* next_index of cycle_focus, 0-based
next_index(direction, index, len_components) ==
    (IF direction = "Next" THEN index + 1
     ELSE len_components + index - 1) % len_components

\* Editor::lay_components(frame): laid_components is cleared and recomputed
\* from the layout by every one of its readers (lines 223, 300, 363), so it is
\* a value of the call, not state that outlives it
lay_components(e) == compute(e.layout)

\* mutant of cycle_focus: a focus that is no longer laid is left as it is
cycle_focus_keeps_stale(e, direction) ==
    LET laid == sort_by_frame_id(remove_reserved(lay_components(e)))
        len_components == Len(laid)
        found == IF e.focus = None THEN None ELSE position(laid, e.focus)
    IN IF e.focus # None /\ found = None THEN e
       ELSE IF len_components = 0 THEN [e EXCEPT !.focus = None]
       ELSE [e EXCEPT !.focus =
                 laid[next_index(direction, IF found = None THEN 0 ELSE found,
                                 len_components) + 1].id]

\* Editor::cycle_focus(frame, direction)
cycle_focus(e, direction) ==
    LET laid == sort_by_frame_id(remove_reserved(lay_components(e)))
        len_components == Len(laid)
        found == IF e.focus = None THEN None ELSE position(laid, e.focus)
        index == IF found = None THEN 0 ELSE found
    IN IF len_components = 0
       THEN [e EXCEPT !.focus = None]
       ELSE [e EXCEPT !.focus = laid[next_index(direction, index,
                                                len_components) + 1].id]

(* ------------------------------------------------------------------ *)
(* Editor: registry                                                    *)
(* ------------------------------------------------------------------ *)
\* mutant of add_to_layout: the splash leaf is not removed
add_to_layout_keeps_splash(layout, component_id) ==
    LET inner == unwrap_prompt_from_layout(layout)
    IN wrap_layout_with_prompt(
           IF inner = NoLayout THEN NoLayout
           ELSE add_left(inner, component_id, Stretched))

\* the layout add_component builds (lines 85-92)
add_to_layout(layout, component_id) ==
    LET inner == unwrap_prompt_from_layout(layout)
    IN wrap_layout_with_prompt(
           IF inner = NoLayout THEN NoLayout
           ELSE remove_component_id(add_left(inner, component_id, Stretched),
                                    SPLASH_ID))

\* the layout Ctrl-q builds (lines 277-282)
remove_from_layout(layout, id) ==
    LET inner == unwrap_prompt_from_layout(layout)
    IN wrap_layout_with_prompt(
           IF inner = NoLayout THEN NoLayout
           ELSE remove_component_id(inner, id))

\* mutant of add_component: the counter is not advanced
add_component_same_id(e) ==
    LET component_id == e.next_component_id
    IN [e EXCEPT !.components = e.components \cup {component_id},
                 !.focus = IF e.focus = None THEN component_id ELSE e.focus,
                 !.layout = add_to_layout(e.layout, component_id),
                 !.returned = Append(e.returned, component_id)]

\* mutant of add_component: the new pane always takes the focus
add_component_takes_focus(e) ==
    LET component_id == e.next_component_id
    IN [e EXCEPT !.next_component_id = component_id + 1,
                 !.components = e.components \cup {component_id},
                 !.focus = component_id,
                 !.layout = add_to_layout(e.layout, component_id),
                 !.returned = Append(e.returned, component_id)]

\* Editor::add_component; the id it returns is e.next_component_id
add_component(e) ==
    LET component_id == e.next_component_id
    IN [e EXCEPT !.next_component_id = component_id + 1,
                 !.components = e.components \cup {component_id},
                 !.focus = IF e.focus = None THEN component_id ELSE e.focus,
                 !.layout = add_to_layout(e.layout, component_id),
                 !.returned = Append(e.returned, component_id)]

\* Path::exists
exists(path) == path # "missing"

\* Buffer::from_file: a missing file is a new, empty buffer
from_file(path) ==
    CASE path \in {"existing", "missing"} -> "Ok"
      [] path = "denied" -> "PermissionDenied"
      [] OTHER -> "Io"

\* mutant of open_file: a permission error is returned like any other error
open_file_denied_is_error(e, path) ==
    LET called == [e EXCEPT !.trace.opened = path]
        logged == IF ~exists(path)
                  THEN [called EXCEPT !.prompt_log = "[New file]"] ELSE called
        key == themes[e.theme_index + 1]
        buffer == from_file(path)
    IN IF key \notin e.syntax_theme_set
       THEN [logged EXCEPT !.result = "MissingSyntectTheme"]
       ELSE IF buffer = "Ok"
            THEN LET added == add_component(logged)
                 IN [added EXCEPT !.focus = logged.next_component_id]
            ELSE [logged EXCEPT !.result = "Io"]

\* Editor::open_file; .result is what it returns
open_file(e, path) ==
    LET called == [e EXCEPT !.trace.opened = path]
        logged == IF ~exists(path)
                  THEN [called EXCEPT !.prompt_log = "[New file]"] ELSE called
        key == themes[e.theme_index + 1]
        buffer == from_file(path)
    IN IF key \notin e.syntax_theme_set
       THEN [logged EXCEPT !.result = "MissingSyntectTheme"]
       ELSE CASE buffer = "Ok" ->
                     LET added == add_component(logged)
                     IN [added EXCEPT !.focus = logged.next_component_id]
              [] buffer = "PermissionDenied" ->
                     [logged EXCEPT !.prompt_log = "Permission denied while opening"]
              [] OTHER -> [logged EXCEPT !.result = "Io"]

(* ------------------------------------------------------------------ *)
(* Editor: key dispatch                                                *)
(* ------------------------------------------------------------------ *)
\* what one key_press call handed to the collaborators
\* (calls: the collaborators' key_press calls in the order they were made;
\* pane_failed: the pane's key_press returned an error)
NoTrace == [key |-> "", pane |-> None, prompt |-> FALSE, polled |-> FALSE,
            opened |-> "none", calls |-> <<>>, pane_failed |-> FALSE]

\* mutant of key_receiver: the focused pane takes the key even while the
\* prompt is active
key_receiver_ignores_prompt(e) ==
    IF e.focus # None
          /\ \E i \in 1..Len(lay_components(e)) : lay_components(e)[i].id = e.focus
    THEN e.focus ELSE None

\* lines 299-334: the pane that receives a non-global key, or None: the laid
\* component whose id is the focus, when the prompt is inactive
key_receiver(e) ==
    IF ~e.prompt_active /\ e.focus # None
          /\ \E i \in 1..Len(lay_components(e)) : lay_components(e)[i].id = e.focus
    THEN e.focus ELSE None

\* mutant of global_shortcut: the theme index stops at the last theme
global_shortcut_theme_saturates(e, key) ==
    CASE key = "Ctrl-o" -> cycle_focus(e, "Next")
      [] key = "Ctrl-q" ->
             IF e.focus # None
             THEN cycle_focus(
                      [e EXCEPT !.layout = remove_from_layout(e.layout, e.focus)],
                      "Previous")
             ELSE e
      [] key = "Ctrl-t" ->
             [e EXCEPT !.theme_index = IF e.theme_index + 1 < Len(themes)
                                       THEN e.theme_index + 1 ELSE @,
                       !.prompt_log = "Theme changed"]

\* lines 271-294: the global shortcuts, each of which returns Ok(()) at once
global_shortcut(e, key) ==
    CASE key = "Ctrl-o" -> cycle_focus(e, "Next")
      [] key = "Ctrl-q" ->
             IF e.focus # None
             THEN cycle_focus(
                      [e EXCEPT !.layout = remove_from_layout(e.layout, e.focus)],
                      "Previous")
             ELSE e
      [] key = "Ctrl-t" ->
             [e EXCEPT !.theme_index = (e.theme_index + 1) % Len(themes),
                       !.prompt_log = "Theme changed"]

\* mutant of dispatch: the pane's error is propagated with `?`
dispatch_pane_error_is_fatal(e, key, pane_ok, prompt_ok, active_after, command) ==
    LET receiver == key_receiver(e)
        paned == [e EXCEPT !.trace.pane = receiver,
                           !.trace.calls = IF receiver # None
                                           THEN Append(@, "pane") ELSE @,
                           !.trace.pane_failed = receiver # None /\ ~pane_ok]
        prompted == [paned EXCEPT !.trace.prompt = TRUE,
                                  !.trace.calls = Append(@, "prompt")]
    IN IF receiver # None /\ ~pane_ok THEN [paned EXCEPT !.result = "Pane"]
       ELSE IF ~prompt_ok THEN [prompted EXCEPT !.result = "Prompt"]
       ELSE LET polled == [prompted EXCEPT !.prompt_active = active_after,
                                           !.trace.polled = TRUE]
            IN IF command \in Paths THEN open_file(polled, command)
               ELSE polled

\* lines 299-351: the focused pane, then the prompt, then the prompt's command.
\* pane_ok, prompt_ok: what the pane's and the prompt's key_press return;
\* active_after, command: the prompt's is_active() and poll_and_clear() after
\* it took the key
dispatch(e, key, pane_ok, prompt_ok, active_after, command) ==
    LET receiver == key_receiver(e)
        paned == [e EXCEPT !.trace.pane = receiver,
                           !.trace.calls = IF receiver # None
                                           THEN Append(@, "pane") ELSE @,
                           !.trace.pane_failed = receiver # None /\ ~pane_ok,
                           !.prompt_log = IF receiver # None /\ ~pane_ok
                                          THEN "pane error" ELSE @]
        prompted == [paned EXCEPT !.trace.prompt = TRUE,
                                  !.trace.calls = Append(@, "prompt")]
    IN IF ~prompt_ok THEN [prompted EXCEPT !.result = "Prompt"]
       ELSE LET polled == [prompted EXCEPT !.prompt_active = active_after,
                                           !.trace.polled = TRUE]
            IN IF command \in Paths THEN open_file(polled, command)
               ELSE polled

\* mutant of key_press: a global shortcut does not return and falls through
key_press_falls_through(e, key, pane_ok, prompt_ok, active_after, command) ==
    LET cleared == [e EXCEPT !.prompt_log = "", !.trace.key = key]
    IN IF key \in GlobalKeys
       THEN dispatch(global_shortcut(cleared, key), key, pane_ok, prompt_ok,
                     active_after, command)
       ELSE dispatch(cleared, key, pane_ok, prompt_ok, active_after, command)

\* Editor::key_press(key, frame); .result is what it returns
key_press(e, key, pane_ok, prompt_ok, active_after, command) ==
    LET cleared == [e EXCEPT !.prompt_log = "", !.trace.key = key]
    IN IF key \in GlobalKeys THEN global_shortcut(cleared, key)
       ELSE dispatch(cleared, key, pane_ok, prompt_ok, active_after, command)

(* ------------------------------------------------------------------ *)
(* State                                                               *)
(* ------------------------------------------------------------------ *)
VARIABLES
    components,         \* keys of Editor.components
    layout,             \* Editor.layout
    next_component_id,  \* Editor.next_component_id
    focus,              \* Editor.focus
    prompt_active,      \* Editor.prompt: is_active()
    prompt_log,         \* Editor.prompt: the transient log line
    theme_index,        \* Editor.theme_index
    syntax_theme_set,   \* keys of Editor.syntax_theme_set.themes
    channel,            \* job_pool.receiver(): completions not yet received
    pc,                 \* where the program is: main, then the phases of ui_loop
    dirty,              \* ui_loop: dirty
    last_drawn,         \* ui_loop: last_drawn.elapsed(), saturated at REDRAW_LATENCY
    first_event_time,   \* ui_loop: first_event_time.elapsed(), saturated, or None
    sustained_io,       \* ui_loop: sustained_io
    slept,              \* ui_loop: slept
    returned,           \* history: the ids add_component returned, in order
    trace,              \* history: what the key_press of the last step delivered
    task_trace,         \* history: the task_done calls the last step made, in order
    applied,            \* history: ids of the completions received, in order
    jobs_sent,          \* history: completions sent so far
    keys_read,          \* history: key events read so far
    iter                \* history: completions, keys, draws, sleeps of this iteration

editor_vars == <<components, layout, next_component_id, focus,
                 prompt_active, prompt_log, theme_index, returned>>
vars == <<components, layout, next_component_id, focus,
          prompt_active, prompt_log, theme_index, syntax_theme_set, channel,
          pc, dirty, last_drawn, first_event_time, sustained_io, slept,
          returned, trace, task_trace, applied, jobs_sent, keys_read, iter>>

\* the Editor as the record the operators above transform
Self ==
    [components |-> components, layout |-> layout,
     next_component_id |-> next_component_id, focus |-> focus,
     prompt_active |-> prompt_active, prompt_log |-> prompt_log,
     theme_index |-> theme_index, syntax_theme_set |-> syntax_theme_set,
     returned |-> returned, trace |-> NoTrace, result |-> "Ok"]

\* self is left as the record e
Becomes(e) ==
    /\ components' = e.components
    /\ layout' = e.layout
    /\ next_component_id' = e.next_component_id
    /\ focus' = e.focus
    /\ prompt_active' = e.prompt_active
    /\ prompt_log' = e.prompt_log
    /\ theme_index' = e.theme_index
    /\ returned' = e.returned
    /\ trace' = e.trace

\* the step calls no key_press and no task_done
Quiet == trace' = NoTrace /\ task_trace' = <<>>

\* (sleeps: the thread::sleep calls of this iteration so far; slept_before:
\* those of the iteration before it, 0 in the first)
NewIter == [jobs |-> 0, keys |-> 0, draws |-> 0, sleeps |-> 0, slept_before |-> 0]

\* Editor::new, and the locals of ui_loop before it is entered
Init ==
    /\ components = {}
    /\ layout = wrap_layout_with_prompt(NoLayout)
    /\ next_component_id = (IF PROMPT_ID > SPLASH_ID THEN PROMPT_ID ELSE SPLASH_ID) + 1
    /\ focus = None
    /\ prompt_active = FALSE
    /\ prompt_log = ""
    /\ theme_index = 0
    /\ syntax_theme_set \in {DefaultSyntaxThemes,
                             DefaultSyntaxThemes \cup {"gruvbox-dark-soft"}}
    /\ channel = <<>>
    /\ pc = "main"
    /\ dirty = TRUE
    /\ last_drawn = REDRAW_LATENCY
    /\ first_event_time = None
    /\ sustained_io = FALSE
    /\ slept = FALSE
    /\ returned = <<>>
    /\ trace = NoTrace
    /\ task_trace = <<>>
    /\ applied = <<>>
    /\ jobs_sent = 0
    /\ keys_read = 0
    /\ iter = NewIter

(* ------------------------------------------------------------------ *)
(* Helpers of the loop                                                 *)
(* ------------------------------------------------------------------ *)
Min(a, b) == IF a < b THEN a ELSE b

\* Instant::elapsed() after d more milliseconds, saturated at cap
Elapse(t, d, cap) == IF t = None THEN None ELSE Min(t + d, cap)

\* the orders in which a HashMap holding the ids of registry may yield them
Orders(registry) ==
    {order \in [1..Cardinality(registry) -> registry] :
        \A i, j \in 1..Cardinality(registry) : order[i] = order[j] => i = j}

RECURSIVE try_for_each(_, _)
\* Iterator::try_for_each over the panes in order: the task_done calls made, in
\* the order made; it stops at the first call that fails.
\* fail: the pane whose task_done fails, or None
try_for_each(order, fail) ==
    IF order = <<>> THEN <<>>
    ELSE IF Head(order) = fail THEN <<[pane |-> fail, ok |-> FALSE]>>
    ELSE <<[pane |-> Head(order), ok |-> TRUE]>> \o try_for_each(Tail(order), fail)

\* mutant of notify_task_done: every pane is visited, the failure is returned
\* at the end
notify_task_done_visits_all(order, fail) ==
    [visited |-> [i \in 1..Len(order) |->
                     [pane |-> order[i], ok |-> order[i] # fail]],
     result |-> IF \E i \in 1..Len(order) : order[i] = fail
                THEN "Task" ELSE "Ok"]

\* notify_task_done: components.values_mut().try_for_each(task_done), over the
\* order the map yields its values in; .result is what it returns
notify_task_done(order, fail) ==
    LET calls == try_for_each(order, fail)
    IN [visited |-> calls,
        result |-> IF \E i \in 1..Len(calls) : ~calls[i].ok
                   THEN "Task" ELSE "Ok"]

\* try_recv(): the response the receiver yields, the oldest one sent
try_recv(ch) == Head(ch)

\* mutant of after_key: the completions are polled again after every key
after_key_polls_jobs(is_dirty, elapsed) ==
    IF is_dirty /\ elapsed >= SUSTAINED_IO_REDRAW_LATENCY THEN "redraw" ELSE "jobs"

\* mutant of after_key: the input drain is left only when stdin runs dry
after_key_never_cuts(is_dirty, elapsed) == "input"

\* line 173: where the input drain goes after a dispatched key
after_key(is_dirty, elapsed) ==
    IF is_dirty /\ elapsed >= SUSTAINED_IO_REDRAW_LATENCY THEN "redraw" ELSE "input"

\* mutant of should_draw: a dirty frame is drawn whatever the time since the
\* last draw
should_draw_ignores_latency(is_dirty, elapsed) == is_dirty

\* line 182: the redraw condition
should_draw(is_dirty, elapsed) == is_dirty /\ elapsed >= REDRAW_LATENCY

\* mutant of after_draw: the draw sits inside the input drain
after_draw_resumes_input == "input"

\* lines 182-204: after the draw come the sleeps, never more input
after_draw == "sleep"

\* lines 143-153: the completions are drained before input is read
after_jobs == "input"

\* mutant of after_quit: Ctrl-c leaves the input drain with break
after_quit_breaks == "redraw"

\* lines 155-157: Ctrl-c is `return Ok(())`, out of ui_loop
after_quit == "done"

(* ------------------------------------------------------------------ *)
(* Actions before ui_loop                                              *)
(* ------------------------------------------------------------------ *)
\* the caller adds a pane
AddComponent ==
    /\ pc = "main"
    /\ next_component_id < MaxComponentId
    /\ Becomes(add_component(Self))
    /\ task_trace' = <<>>
    /\ UNCHANGED <<syntax_theme_set, channel, pc, dirty, last_drawn,
                   first_event_time, sustained_io, slept, iter, applied,
                   jobs_sent, keys_read>>

\* the caller opens a file; an error ends the program
OpenFile(path) ==
    /\ pc = "main"
    /\ next_component_id < MaxComponentId
    /\ LET r == open_file(Self, path)
       IN /\ Becomes(r)
          /\ pc' = IF r.result = "Ok" THEN "main" ELSE "failed"
    /\ task_trace' = <<>>
    /\ UNCHANGED <<syntax_theme_set, channel, dirty, last_drawn, first_event_time,
                   sustained_io, slept, iter, applied, jobs_sent, keys_read>>

\* ui_loop is entered (lines 129-131)
StartLoop ==
    /\ pc = "main"
    /\ pc' = "jobs"
    /\ dirty' = TRUE
    /\ last_drawn' = REDRAW_LATENCY
    /\ iter' = NewIter
    /\ Quiet
    /\ UNCHANGED <<editor_vars, syntax_theme_set, channel, first_event_time,
                   sustained_io, slept, applied, jobs_sent, keys_read>>

(* ------------------------------------------------------------------ *)
(* The job pool                                                        *)
(* ------------------------------------------------------------------ *)
\* A worker sends a completion, successful or failed. The loop looks at the
\* channel only while it drains it, so a completion sent during the redraw or
\* a sleep is one sent at the start of the next drain.
JobComplete(ok) ==
    /\ pc \in {"jobs", "input"}
    /\ jobs_sent < MaxJobs
    /\ jobs_sent' = jobs_sent + 1
    /\ channel' = Append(channel, [id |-> jobs_sent + 1, ok |-> ok])
    /\ Quiet
    /\ UNCHANGED <<editor_vars, syntax_theme_set, pc, dirty, last_drawn,
                   first_event_time, sustained_io, slept, iter, applied, keys_read>>

(* ------------------------------------------------------------------ *)
(* ui_loop: draining completions (lines 134-150)                       *)
(* ------------------------------------------------------------------ *)
\* try_recv() is Ok(response) with a successful payload
ReceivePayload ==
    /\ pc = "jobs"
    /\ channel # <<>>
    /\ try_recv(channel).ok
    /\ \E fail \in components \cup {None} :
         \E order \in Orders(components) :
            LET r == notify_task_done(order, fail)
            IN /\ task_trace' = r.visited
               /\ pc' = IF r.result = "Ok" THEN "jobs" ELSE "failed"
               /\ dirty' = IF r.result = "Ok" THEN TRUE ELSE dirty
    /\ applied' = Append(applied, try_recv(channel).id)
    /\ channel' = Tail(channel)
    /\ iter' = [iter EXCEPT !.jobs = @ + 1]
    /\ trace' = NoTrace
    /\ UNCHANGED <<editor_vars, syntax_theme_set, last_drawn, first_event_time,
                   sustained_io, slept, jobs_sent, keys_read>>

\* try_recv() is Ok(response) with a failed payload: it is logged
ReceiveFailure ==
    /\ pc = "jobs"
    /\ channel # <<>>
    /\ ~try_recv(channel).ok
    /\ prompt_log' = "job error"
    /\ dirty' = TRUE
    /\ applied' = Append(applied, try_recv(channel).id)
    /\ channel' = Tail(channel)
    /\ iter' = [iter EXCEPT !.jobs = @ + 1]
    /\ Quiet
    /\ UNCHANGED <<components, layout, next_component_id, focus,
                   prompt_active, theme_index, returned, syntax_theme_set,
                   pc, last_drawn, first_event_time, sustained_io, slept,
                   jobs_sent, keys_read>>

\* try_recv() is Err(Empty): on to the input drain (lines 143-153)
JobsEmpty ==
    /\ pc = "jobs"
    /\ channel = <<>>
    /\ pc' = after_jobs
    /\ sustained_io' = FALSE
    /\ first_event_time' = None
    /\ Quiet
    /\ UNCHANGED <<editor_vars, syntax_theme_set, channel, dirty, last_drawn, slept,
                   iter, applied, jobs_sent, keys_read>>

(* ------------------------------------------------------------------ *)
(* ui_loop: draining input (lines 154-177)                             *)
(* ------------------------------------------------------------------ *)
\* stdin.next() is Some(Ok(Key::Ctrl('c')))
ReadQuit ==
    /\ pc = "input"
    /\ keys_read < MaxKeys
    /\ keys_read' = keys_read + 1
    /\ pc' = after_quit
    /\ trace' = [NoTrace EXCEPT !.key = "Ctrl-c"]
    /\ task_trace' = <<>>
    /\ UNCHANGED <<editor_vars, syntax_theme_set, channel, dirty, last_drawn,
                   first_event_time, sustained_io, slept, iter, applied, jobs_sent>>

\* stdin.next() is Some(Ok(key)) for another key, dispatched by key_press, which
\* takes cost milliseconds. first_event_time is a local of the iteration: it is
\* None again once the drain is left. (iter.keys counts the keys of the burst
\* up to MaxKeys + 2: a burst has at most MaxKeys counted keys and two held
\* ones before it is cut)
KeyPressed(key, pane_ok, prompt_ok, active_after, command, cost) ==
    /\ pc = "input"
    /\ command \in Paths => next_component_id < MaxComponentId
    /\ LET r == key_press(Self, key, pane_ok, prompt_ok, active_after, command)
           started == IF first_event_time = None THEN 0 ELSE first_event_time
           elapsed == Elapse(started, cost, SUSTAINED_IO_REDRAW_LATENCY)
       IN /\ Becomes(r)
          /\ last_drawn' = Elapse(last_drawn, cost, REDRAW_LATENCY)
          /\ IF r.result # "Ok"
             THEN /\ pc' = "failed"
                  /\ UNCHANGED <<dirty, sustained_io, first_event_time>>
             ELSE /\ dirty' = TRUE
                  /\ pc' = after_key(TRUE, elapsed)
                  /\ sustained_io' = (after_key(TRUE, elapsed) # "input")
                  /\ first_event_time' =
                         IF after_key(TRUE, elapsed) = "input" THEN elapsed ELSE None
    /\ iter' = [iter EXCEPT !.keys = Min(@ + 1, MaxKeys + 2)]
    /\ task_trace' = <<>>
    /\ UNCHANGED <<syntax_theme_set, channel, slept, applied, jobs_sent>>

\* one of the keys the behaviour counts, at most MaxKeys of them
ReadKey(key, pane_ok, prompt_ok, active_after, command, cost) ==
    /\ keys_read < MaxKeys
    /\ keys_read' = keys_read + 1
    /\ KeyPressed(key, pane_ok, prompt_ok, active_after, command, cost)

\* input that never runs dry (a paste, a held key): stdin.next() has one more
\* key every time it is asked, and every key_press takes its time
ReadKeyHeld(cost) ==
    /\ cost > 0
    /\ KeyPressed("Char", TRUE, TRUE, prompt_active, "none", cost)
    /\ UNCHANGED keys_read

\* stdin.next() is Some(Err(_)): the error ends the loop (lines 169-171)
ReadError ==
    /\ pc = "input"
    /\ pc' = "failed"
    /\ Quiet
    /\ UNCHANGED <<editor_vars, syntax_theme_set, channel, dirty, last_drawn,
                   first_event_time, sustained_io, slept, iter, applied, jobs_sent,
                   keys_read>>

\* stdin.next() is None: the burst is over
InputDry ==
    /\ pc = "input"
    /\ pc' = "redraw"
    /\ first_event_time' = None
    /\ Quiet
    /\ UNCHANGED <<editor_vars, syntax_theme_set, channel, dirty, last_drawn,
                   sustained_io, slept, iter, applied, jobs_sent, keys_read>>

(* ------------------------------------------------------------------ *)
(* ui_loop: redraw and sleeps (lines 180-204)                          *)
(* ------------------------------------------------------------------ *)
\* dirty and REDRAW_LATENCY elapsed: resize, draw, present
Redraw ==
    /\ pc = "redraw"
    /\ should_draw(dirty, last_drawn)
    /\ dirty' = FALSE
    /\ last_drawn' = 0
    /\ slept' = FALSE
    /\ pc' = after_draw
    /\ iter' = [iter EXCEPT !.draws = @ + 1]
    /\ Quiet
    /\ UNCHANGED <<editor_vars, syntax_theme_set, channel, first_event_time,
                   sustained_io, applied, jobs_sent, keys_read>>

\* screen.resize_to_terminal()? or screen.present()? fails
RedrawFails ==
    /\ pc = "redraw"
    /\ should_draw(dirty, last_drawn)
    /\ pc' = "failed"
    /\ Quiet
    /\ UNCHANGED <<editor_vars, syntax_theme_set, channel, dirty, last_drawn,
                   first_event_time, sustained_io, slept, iter, applied,
                   jobs_sent, keys_read>>

\* no redraw: sleep the rest of REDRAW_LATENCY unless the burst was cut short
SkipRedraw ==
    /\ pc = "redraw"
    /\ ~should_draw(dirty, last_drawn)
    /\ IF ~sustained_io /\ last_drawn < REDRAW_LATENCY
       THEN /\ last_drawn' = REDRAW_LATENCY
            /\ slept' = TRUE
            /\ iter' = [iter EXCEPT !.sleeps = @ + 1]
       ELSE /\ slept' = FALSE
            /\ UNCHANGED <<last_drawn, iter>>
    /\ pc' = "sleep"
    /\ Quiet
    /\ UNCHANGED <<editor_vars, syntax_theme_set, channel, dirty, first_event_time,
                   sustained_io, applied, jobs_sent, keys_read>>

\* lines 196-204: the 1 ms sleep when nothing slept, then the next iteration,
\* which declares sustained_io and slept anew
EndIteration ==
    /\ pc = "sleep"
    /\ last_drawn' = IF slept THEN last_drawn
                     ELSE Elapse(last_drawn, FALLBACK_SLEEP, REDRAW_LATENCY)
    /\ pc' = "jobs"
    /\ sustained_io' = FALSE
    /\ slept' = FALSE
    /\ iter' = [NewIter EXCEPT !.slept_before =
                                  iter.sleeps + IF slept THEN 0 ELSE 1]
    /\ Quiet
    /\ UNCHANGED <<editor_vars, syntax_theme_set, channel, dirty, first_event_time,
                   applied, jobs_sent, keys_read>>

Next ==
    \/ AddComponent
    \/ \E path \in Paths : OpenFile(path)
    \/ StartLoop
    \/ \E ok \in BOOLEAN : JobComplete(ok)
    \/ ReceivePayload
    \/ ReceiveFailure
    \/ JobsEmpty
    \/ ReadQuit
    \/ \E key \in GlobalKeys, cost \in KeyCosts :
           ReadKey(key, TRUE, TRUE, prompt_active, "none", cost)
    \/ \E pane_ok, prompt_ok, active_after \in BOOLEAN :
         \E command \in {"none"} \cup Paths, cost \in KeyCosts :
           ReadKey("Char", pane_ok, prompt_ok, active_after, command, cost)
    \/ ReadError
    \/ InputDry
    \/ Redraw
    \/ RedrawFails
    \/ SkipRedraw
    \/ EndIteration

Spec == Init /\ [][Next]_vars

(* ------------------------------------------------------------------ *)
(* Two environments of the same program                                *)
(* ------------------------------------------------------------------ *)
\* The job pool stays silent and a key_press takes no measurable time: the
\* behaviours that decide what the registry, the layout, the focus and the
\* prompt become, which no completion and no clock reading changes.
NextEditor ==
    \/ AddComponent
    \/ \E path \in Paths : OpenFile(path)
    \/ StartLoop
    \/ JobsEmpty
    \/ ReadQuit
    \/ \E key \in GlobalKeys : ReadKey(key, TRUE, TRUE, prompt_active, "none", 0)
    \/ \E pane_ok, prompt_ok, active_after \in BOOLEAN :
         \E command \in {"none"} \cup Paths :
           ReadKey("Char", pane_ok, prompt_ok, active_after, command, 0)
    \/ ReadError
    \/ InputDry
    \/ Redraw
    \/ RedrawFails
    \/ SkipRedraw
    \/ EndIteration

SpecEditor == Init /\ [][NextEditor]_vars

\* The panes are there when the loop starts and the prompt completes no
\* command: the behaviours that decide the order of the loop's phases, its
\* redraws and its sleeps, for every timing of keys and completions.
NextLoop ==
    \/ AddComponent
    \/ StartLoop
    \/ \E ok \in BOOLEAN : JobComplete(ok)
    \/ ReceivePayload
    \/ ReceiveFailure
    \/ JobsEmpty
    \/ ReadQuit
    \/ \E key \in {"Ctrl-t", "Char"}, cost \in KeyCosts :
           ReadKey(key, TRUE, TRUE, prompt_active, "none", cost)
    \/ ReadError
    \/ InputDry
    \/ Redraw
    \/ RedrawFails
    \/ SkipRedraw
    \/ EndIteration

SpecLoop == Init /\ [][NextLoop]_vars

\* Panes are closed and the prompt becomes active and inactive while
\* successful completions arrive, and a key_press takes no measurable time:
\* the behaviours that decide which panes a completion reaches and what is
\* left undone when the loop ends.
NextJobs ==
    \/ AddComponent
    \/ StartLoop
    \/ JobComplete(TRUE)
    \/ ReceivePayload
    \/ JobsEmpty
    \/ ReadQuit
    \/ ReadKey("Ctrl-q", TRUE, TRUE, prompt_active, "none", 0)
    \/ \E active_after \in BOOLEAN :
           ReadKey("Char", TRUE, TRUE, active_after, "none", 0)
    \/ ReadError
    \/ InputDry
    \/ Redraw
    \/ RedrawFails
    \/ SkipRedraw
    \/ EndIteration

SpecJobs == Init /\ [][NextJobs]_vars

\* Keys never stop coming: besides the counted keys there is always one more
\* key to read, each taking its time. The loop's thread is scheduled: whenever
\* it can take a step it eventually takes one (which step, the input decides).
NextLive ==
    \/ AddComponent
    \/ StartLoop
    \/ JobsEmpty
    \/ ReadQuit
    \/ \E cost \in KeyCosts : ReadKey("Char", TRUE, TRUE, prompt_active, "none", cost)
    \/ \E cost \in KeyCosts : ReadKeyHeld(cost)
    \/ ReadError
    \/ InputDry
    \/ Redraw
    \/ RedrawFails
    \/ SkipRedraw
    \/ EndIteration

SpecLive == Init /\ [][NextLive]_vars /\ WF_vars(NextLive)

(* ------------------------------------------------------------------ *)
(* Vocabulary of the properties                                        *)
(* ------------------------------------------------------------------ *)
\* the content subtree: the first child of the root
Content == layout.children[1].node

\* the non-reserved leaf ids of a layout, in traversal order
RealLeaves(l) == SelectSeq(Leaves(l), LAMBDA id : id >= 2)

Range(seq) == {seq[i] : i \in 1..Len(seq)}

LaidIds == Range(RealLeaves(layout))

\* the pane visited after id, resp. before id, in the sequence order, wrapping
Successor(order, id) ==
    order[((CHOOSE i \in 1..Len(order) : order[i] = id) % Len(order)) + 1]
Predecessor(order, id) ==
    order[(((CHOOSE i \in 1..Len(order) : order[i] = id) + Len(order) - 2)
              % Len(order)) + 1]

RECURSIVE CycleNextTimes(_, _)
\* the focus values seen over n presses of cycle_focus(Next), starting at e
CycleNextTimes(e, n) ==
    IF n = 0 THEN <<>>
    ELSE LET f == cycle_focus(e, "Next")
         IN <<f.focus>> \o CycleNextTimes(f, n - 1)

(* ------------------------------------------------------------------ *)
(* C1                                                                  *)
(* ------------------------------------------------------------------ *)
\* C1: between operations, the set of non-reserved leaf ids (>= 2) of the
\* layout equals the set of ids held in the registry (the components map).
C1_LayoutIdsEqualRegistry == LaidIds = components

(* ------------------------------------------------------------------ *)
(* C2                                                                  *)
(* ------------------------------------------------------------------ *)
\* C2: the root is always Vertical[(content, Stretched), (Leaf(PROMPT_ID),
\* Fixed(1))]; content is Leaf(SPLASH_ID) exactly when no real pane is laid,
\* and when a real pane is laid content holds no splash and no prompt leaf.
C2_WrappedWithPrompt ==
    /\ layout = vertical(LayoutNodeFlex(Content, Stretched),
                         LayoutNodeFlex(Component(PROMPT_ID), Fixed(1)))
    /\ (Content = Component(SPLASH_ID)) <=> (RealLeaves(Content) = <<>>)
    /\ RealLeaves(Content) # <<>> =>
           /\ SPLASH_ID \notin Range(Leaves(Content))
           /\ PROMPT_ID \notin Range(Leaves(Content))

\* the only remaining pane was just closed and the splash leaf is back
C2_Witness ==
    /\ trace.key = "Ctrl-q"
    /\ components # {}
    /\ Content = Component(SPLASH_ID)

(* ------------------------------------------------------------------ *)
(* C3                                                                  *)
(* ------------------------------------------------------------------ *)
\* C3: focus is empty, or the id (>= 2) of a pane that is a leaf of the layout
\* and a key of the registry; never PROMPT_ID, SPLASH_ID or a closed pane.
C3_FocusIsLaidPane ==
    focus # None =>
        /\ focus >= 2
        /\ focus \notin {PROMPT_ID, SPLASH_ID}
        /\ focus \in LaidIds
        /\ focus \in components

\* the focused pane was just closed, another pane took the focus
C3_Witness ==
    /\ trace.key = "Ctrl-q"
    /\ components \ LaidIds # {}
    /\ focus \in LaidIds

(* ------------------------------------------------------------------ *)
(* C4                                                                  *)
(* ------------------------------------------------------------------ *)
\* C4: the ids add_component returned are strictly increasing (hence unique
\* and never handed out twice, also after a close), start at 2, and are never
\* one of the reserved ids 0 and 1.
C4_IdsIncreaseFromTwo ==
    /\ \A i, j \in 1..Len(returned) : i < j => returned[i] < returned[j]
    /\ returned # <<>> => returned[1] = 2
    /\ \A i \in 1..Len(returned) : returned[i] \notin {PROMPT_ID, SPLASH_ID}
    /\ \A i \in 1..Len(returned) : returned[i] < next_component_id

\* a pane was closed, and the key just dispatched opened a new file in a new pane
C4_Witness ==
    /\ trace.opened = "missing"
    /\ trace.polled
    /\ pc = "input"
    /\ Len(returned) >= 2
    /\ returned[Len(returned)] \in LaidIds
    /\ \E i \in 1..(Len(returned) - 1) : returned[i] \notin LaidIds

(* ------------------------------------------------------------------ *)
(* C5                                                                  *)
(* ------------------------------------------------------------------ *)
\* C5: from any focus on a laid pane, cycle_focus(Next) then
\* cycle_focus(Previous) with the layout unchanged gives the focus back, and
\* so does Previous then Next, also at both wrap-around ends.
C5_NextThenPreviousIsIdentity ==
    focus \in LaidIds =>
        /\ cycle_focus(cycle_focus(Self, "Next"), "Previous").focus = focus
        /\ cycle_focus(cycle_focus(Self, "Previous"), "Next").focus = focus

\* Ctrl-o just wrapped the focus from the last pane to the first of three
C5_Witness ==
    /\ trace.key = "Ctrl-o"
    /\ Len(RealLeaves(layout)) = 3
    /\ focus = RealLeaves(layout)[1]

(* ------------------------------------------------------------------ *)
(* C6                                                                  *)
(* ------------------------------------------------------------------ *)
\* C6: cycle_focus(Next) moves the focus to the next pane in layout traversal
\* order (ascending frame_id), wrapping from the last to the first; with n
\* laid panes, n presses visit every pane once and end on the start; panes
\* added in the order A, B, C are laid C, B, A, so the order does not follow
\* the ids' allocation order.
C6_NextFollowsLayoutOrder ==
    LET order == RealLeaves(layout)
        n == Len(order)
        visits == CycleNextTimes(Self, n)
    IN /\ \A i, j \in 1..n : i < j => order[i] > order[j]
       /\ focus \in LaidIds =>
              /\ cycle_focus(Self, "Next").focus = Successor(order, focus)
              /\ Range(visits) = LaidIds
              /\ visits[n] = focus

\* three panes laid 4, 3, 2 and Ctrl-o pressed three times in one burst
C6_Witness ==
    /\ RealLeaves(layout) = <<4, 3, 2>>
    /\ trace.key = "Ctrl-o"
    /\ iter.keys = 3
    /\ focus = 4

(* ------------------------------------------------------------------ *)
(* C7                                                                  *)
(* ------------------------------------------------------------------ *)
\* C7: within one iteration the completions are received in the order they
\* were sent and only while the channel is drained, before any key of the
\* iteration is dispatched; the input drain starts only once the channel was
\* found empty; keys are dispatched only in the input drain; the redraw comes
\* after all completions and keys of the iteration and clears dirty, so it
\* shows every mutation of the iteration.
C7_PhasesOrdered ==
    /\ [](\A i \in 1..Len(applied) : applied[i] = i)
    /\ [][/\ applied' # applied =>
                pc = "jobs" /\ iter.keys = 0 /\ iter.draws = 0
          /\ keys_read' # keys_read => pc = "input" /\ iter.draws = 0
          /\ (pc = "jobs" /\ pc' = "input") => channel = <<>>
          /\ iter'.draws > iter.draws =>
                pc = "redraw" /\ iter.draws = 0 /\ ~dirty'
                    /\ iter'.jobs = iter.jobs /\ iter'.keys = iter.keys]_vars

\* two completions and three keys were handled, then the iteration drew
C7_Witness ==
    /\ pc = "sleep"
    /\ iter.jobs = 2
    /\ iter.keys = 3
    /\ iter.draws = 1
    /\ ~dirty

(* ------------------------------------------------------------------ *)
(* C8                                                                  *)
(* ------------------------------------------------------------------ *)
\* C8: the keys consumed by one input drain get at most one redraw: an
\* iteration draws at most once, and no key is dispatched in an iteration
\* that has already drawn, however the burst ends.
C8_OneRedrawPerBurst ==
    /\ [](iter.draws <= 1)
    /\ [][keys_read' # keys_read => iter.draws = 0 /\ iter'.draws = 0]_vars

\* a burst of at least two keys was cut at the threshold and drawn once
C8_Witness ==
    /\ pc = "sleep"
    /\ sustained_io
    /\ iter.keys >= 2
    /\ iter.draws = 1

(* ------------------------------------------------------------------ *)
(* C9                                                                  *)
(* ------------------------------------------------------------------ *)
\* a step in which open_file(path) created a pane, resp. changed no pane
CreatedPane ==
    /\ next_component_id' = next_component_id + 1
    /\ components' = components \cup {next_component_id}
    /\ next_component_id \in LaidIds'
    /\ pc' # "failed"
CreatedNoPane == UNCHANGED <<components, layout, focus, next_component_id>>

\* C9 as stated: open_file on a path that does not exist leaves the log
\* reading "[New file]" and creates a live pane; on a permission-denied path
\* it logs a permission error, returns success and creates no pane.
C9_AsStated ==
    [][/\ trace'.opened = "missing" =>
              prompt_log' = "[New file]" /\ CreatedPane
       /\ trace'.opened = "denied" =>
              /\ prompt_log' = "Permission denied while opening"
              /\ pc' # "failed"
              /\ CreatedNoPane]_vars

\* C9 amended: the same, when the active theme's syntax theme is in the loaded
\* theme set; when it is not, open_file returns the missing-theme error and
\* creates no pane, the log of a path that does not exist still reading
\* "[New file]".
C9_OpenFileOutcomes ==
    [][IF themes[theme_index + 1] \in syntax_theme_set
       THEN /\ trace'.opened = "missing" =>
                   prompt_log' = "[New file]" /\ CreatedPane
            /\ trace'.opened = "denied" =>
                   /\ prompt_log' = "Permission denied while opening"
                   /\ pc' # "failed"
                   /\ CreatedNoPane
       ELSE /\ trace'.opened # "none" => pc' = "failed" /\ CreatedNoPane
            /\ trace'.opened = "missing" => prompt_log' = "[New file]"]_vars

\* the prompt's command opened a permission-denied path: logged, loop goes on
C9_Witness ==
    /\ trace.opened = "denied"
    /\ trace.polled
    /\ prompt_log = "Permission denied while opening"
    /\ pc = "input"

(* ------------------------------------------------------------------ *)
(* C10                                                                 *)
(* ------------------------------------------------------------------ *)
\* C10: a global shortcut (Ctrl-o, Ctrl-q, Ctrl-t, Ctrl-c) is delivered
\* neither to a pane's key_press nor to the prompt's, and no prompt command is
\* polled or run for it, whether or not the prompt is active.
C10_GlobalKeysShortCircuit ==
    trace.key \in GlobalKeys \cup {"Ctrl-c"} =>
        /\ trace.pane = None
        /\ ~trace.prompt
        /\ ~trace.polled
        /\ trace.opened = "none"

\* Ctrl-o was pressed while a pane had the focus and the prompt was inactive
C10_Witness ==
    /\ trace.key = "Ctrl-o"
    /\ ~prompt_active
    /\ Len(RealLeaves(layout)) >= 2
    /\ focus \in LaidIds

(* ------------------------------------------------------------------ *)
(* C11                                                                 *)
(* ------------------------------------------------------------------ *)
\* C11: for a key that is not a global shortcut, a pane receives the key only
\* if it is the focused pane and the prompt was inactive when the key was
\* dispatched; while the prompt is active no pane receives it; the prompt
\* receives the key in every case, after the pane when the pane received it.
C11_FocusedPaneThenPrompt ==
    [][trace'.key = "Char" =>
          /\ trace'.pane # None => trace'.pane = focus /\ ~prompt_active
          /\ prompt_active => trace'.pane = None
          /\ trace'.prompt
          /\ trace'.calls = IF trace'.pane # None THEN <<"pane", "prompt">>
                                                  ELSE <<"prompt">>]_vars

\* a key went to the focused one of several panes and then to the prompt
C11_Witness ==
    /\ trace.key = "Char"
    /\ trace.pane \in LaidIds
    /\ trace.calls = <<"pane", "prompt">>
    /\ Len(RealLeaves(layout)) >= 2

(* ------------------------------------------------------------------ *)
(* C12                                                                 *)
(* ------------------------------------------------------------------ *)
RECURSIVE CycleThemeTimes(_, _)
\* the editor after n presses of the cycle-theme key
CycleThemeTimes(e, n) ==
    IF n = 0 THEN e ELSE CycleThemeTimes(global_shortcut(e, "Ctrl-t"), n - 1)

\* C12: from every theme index, pressing cycle-theme Len(themes) times brings
\* the index back to where it was, the index stays within 0..Len(themes)-1
\* on the way, and a cycle-theme key changes nothing in the registry, the
\* layout or the focus.
C12_ThemeCycleIsPeriodic ==
    /\ [](/\ theme_index \in 0..(Len(themes) - 1)
          /\ \A n \in 1..Len(themes) :
                 CycleThemeTimes(Self, n).theme_index \in 0..(Len(themes) - 1)
          /\ CycleThemeTimes(Self, Len(themes)).theme_index = theme_index)
    /\ [][trace'.key = "Ctrl-t" =>
             /\ theme_index' = (theme_index + 1) % Len(themes)
             /\ UNCHANGED <<components, layout, focus, next_component_id>>]_vars

\* the third cycle-theme key in a row brought the index back to the first
\* theme, with a pane open and focused
C12_Witness ==
    /\ trace.key = "Ctrl-t"
    /\ keys_read = Len(themes)
    /\ theme_index = 0
    /\ focus \in LaidIds

(* ------------------------------------------------------------------ *)
(* C13                                                                 *)
(* ------------------------------------------------------------------ *)
\* C13: when the focused pane is closed and other panes remain, the focus
\* moves to the pane that immediately preceded the closed pane in the visiting
\* order (the layout order, wrapping), whatever the position of the closed
\* pane; when no pane remains the focus becomes empty.
C13_CloseSelectsPredecessor ==
    [][trace'.key = "Ctrl-q" /\ focus \in LaidIds =>
          focus' = IF Len(RealLeaves(layout)) = 1 THEN None
                   ELSE Predecessor(RealLeaves(layout), focus)]_vars

(* ------------------------------------------------------------------ *)
(* C14                                                                 *)
(* ------------------------------------------------------------------ *)
\* a pane was created in this step (its id is the old next_component_id)
PaneAdded == next_component_id' = next_component_id + 1

\* C14 as stated: adding a pane sets the focus to the new pane exactly when no
\* focus existed before; when a pane holds the focus, adding a pane, also one
\* created by the open-file command, leaves the focus on that pane.
C14_AsStated ==
    [][PaneAdded =>
          focus' = IF focus = None THEN next_component_id ELSE focus]_vars

\* C14: add_component sets the focus to the new pane exactly when no focus
\* existed before and otherwise leaves the focus where it was; open_file,
\* when it creates a pane, always moves the focus to the new pane.
C14_FocusOnAdd ==
    [][PaneAdded =>
          IF trace'.opened = "none"
          THEN focus' = IF focus = None THEN next_component_id ELSE focus
          ELSE focus' = next_component_id]_vars

\* the prompt's open-file command created a pane beside an older one and the
\* new pane has the focus
C14_Witness ==
    /\ trace.opened = "existing"
    /\ trace.polled
    /\ Len(RealLeaves(layout)) >= 2
    /\ focus = next_component_id - 1
    /\ focus = RealLeaves(layout)[1]

(* ------------------------------------------------------------------ *)
(* C15                                                                 *)
(* ------------------------------------------------------------------ *)
\* C15: every file-open error other than "does not exist" (permission denied,
\* and any other I/O or buffer-construction error) is recoverable: it is
\* written to the prompt log, no pane is created, and the event loop keeps
\* running instead of ending with the error.
C15_OpenErrorsAreLogged ==
    [][/\ trace'.opened \in Paths
       /\ from_file(trace'.opened) # "Ok"
       /\ themes[theme_index + 1] \in syntax_theme_set
       => /\ prompt_log' # ""
          /\ CreatedNoPane
          /\ pc' # "failed"]_vars

(* ------------------------------------------------------------------ *)
(* C16                                                                 *)
(* ------------------------------------------------------------------ *)
\* C16: a failure of the focused pane's key_press is not fatal: the error is
\* written to the prompt log, the failure changes nothing in registry, layout
\* or focus, the prompt still receives the same key, and the loop goes on.
\* (The key ends as it would have with a pane that succeeded and the same
\* answers of the prompt, but for the log line; with no prompt command run,
\* registry, layout and focus are as they were before the key.)
C16_PaneFailureIsLogged ==
    /\ [][trace'.pane_failed =>
             LET good == key_press(Self, "Char", TRUE, trace'.polled,
                                   prompt_active', trace'.opened)
             IN /\ trace'.calls = <<"pane", "prompt">>
                /\ components' = good.components
                /\ layout' = good.layout
                /\ focus' = good.focus
                /\ (pc' = "failed") = (good.result # "Ok")
                /\ trace'.polled /\ trace'.opened = "none" =>
                       /\ pc' # "failed"
                       /\ dirty'
                       /\ prompt_log' = "pane error"
                       /\ UNCHANGED <<components, layout, focus>>]_vars
    /\ [](trace.pane_failed => trace.pane # None /\ trace.prompt)

\* the focused pane failed on a key, the prompt took the key, the loop reads on
C16_Witness ==
    /\ trace.pane_failed
    /\ trace.pane = focus
    /\ trace.calls = <<"pane", "prompt">>
    /\ prompt_log = "pane error"
    /\ pc = "input"

(* ------------------------------------------------------------------ *)
(* C17                                                                 *)
(* ------------------------------------------------------------------ *)
\* the panes whose task_done the step called
Visited(calls) == {calls[i].pane : i \in 1..Len(calls)}

\* C17: a successful completion payload is delivered exactly once to every
\* live pane's task_done; if a pane's task_done fails the broadcast stops at
\* that pane (no pane is called after it) and the failure is fatal: the loop
\* ends with it and processes no further completion or key.
C17_FanOutStopsAtFailure ==
    /\ [][applied' # applied /\ try_recv(channel).ok =>
             LET calls == task_trace'
                 n == Len(calls)
             IN /\ \A i, j \in 1..n : calls[i].pane = calls[j].pane => i = j
                /\ Visited(calls) \subseteq components
                /\ \A i \in 1..n : ~calls[i].ok => i = n
                /\ IF \A i \in 1..n : calls[i].ok
                   THEN /\ LaidIds \subseteq Visited(calls)
                        /\ pc' = "jobs"
                        /\ dirty'
                   ELSE /\ pc' = "failed"
                        /\ UNCHANGED <<editor_vars, dirty>>]_vars
    /\ [][pc # "failed"]_vars

\* a pane's task_done failed after another pane took the payload and before
\* the last pane was visited; the loop ended with a completion still queued
C17_Witness ==
    /\ pc = "failed"
    /\ Len(task_trace) >= 2
    /\ ~task_trace[Len(task_trace)].ok
    /\ Visited(task_trace) # components
    /\ LaidIds \ Visited(task_trace) # {}
    /\ channel # <<>>

(* ------------------------------------------------------------------ *)
(* C18                                                                 *)
(* ------------------------------------------------------------------ *)
\* the step drew the frame
Drew == iter'.draws = iter.draws + 1

\* C18: an iteration redraws exactly when the frame is dirty and at least
\* REDRAW_LATENCY has passed since the last redraw (unless resizing or
\* presenting fails, which ends the loop); so two redraws are never less than
\* REDRAW_LATENCY apart, a redraw clears dirty, a clean frame is never
\* redrawn, and every iteration that does not end the loop sleeps exactly
\* once: the rest of REDRAW_LATENCY, else the 1 ms fallback.
C18_ThrottledRedrawOneSleep ==
    /\ [][pc = "redraw" =>
             /\ (Drew \/ pc' = "failed") <=> (dirty /\ last_drawn >= REDRAW_LATENCY)
             /\ Drew => ~dirty' /\ last_drawn' = 0 /\ iter'.sleeps = 0
             /\ ~Drew /\ pc' # "failed" =>
                    /\ dirty' = dirty
                    /\ IF last_drawn < REDRAW_LATENCY
                       THEN iter'.sleeps = 1 /\ last_drawn' = REDRAW_LATENCY
                       ELSE iter'.sleeps = 0 /\ last_drawn' = last_drawn]_vars
    /\ [][Drew => pc = "redraw"]_vars
    /\ [][pc = "sleep" =>
             /\ iter'.slept_before = 1
             /\ last_drawn' = IF iter.sleeps = 1 THEN last_drawn
                               ELSE Min(last_drawn + FALLBACK_SLEEP, REDRAW_LATENCY)]_vars

\* a frame made dirty less than REDRAW_LATENCY after the last redraw was not
\* drawn: the iteration, not the first one, slept the remainder instead
C18_Witness ==
    /\ pc = "sleep"
    /\ dirty
    /\ slept
    /\ iter.sleeps = 1
    /\ iter.draws = 0
    /\ iter.slept_before = 1

(* ------------------------------------------------------------------ *)
(* C19                                                                 *)
(* ------------------------------------------------------------------ *)
\* C19: once Ctrl-c is read the loop returns success at once: no later key of
\* the burst is dispatched, no further completion is drained and no redraw
\* happens even if the frame is dirty; this is so in every state, also while
\* the prompt is active.
C19_QuitReturnsAtOnce ==
    /\ [][trace'.key = "Ctrl-c" =>
             /\ pc' = "done"
             /\ UNCHANGED <<editor_vars, dirty, channel, applied, iter>>]_vars
    /\ [][pc # "done"]_vars
    /\ [](pc = "done" => trace.key = "Ctrl-c")

\* Ctrl-c came second in a burst, with the prompt active, the frame dirty and a
\* completion waiting in the channel
C19_Witness ==
    /\ pc = "done"
    /\ trace.key = "Ctrl-c"
    /\ prompt_active
    /\ dirty
    /\ iter.keys >= 1
    /\ iter.draws = 0
    /\ channel # <<>>

(* ------------------------------------------------------------------ *)
(* C20                                                                 *)
(* ------------------------------------------------------------------ *)
\* the loop has returned
Terminated == pc \in {"done", "failed"}

\* C20: input does not starve the redraw: unless the loop terminates, a dirty
\* frame is eventually redrawn, also when there is always another key to
\* read; no key is read once a burst has lasted SUSTAINED_IO_REDRAW_LATENCY,
\* and a burst cut short there is followed by a redraw in the same iteration;
\* a dirty frame too recent to draw is due after the remainder sleep, stays
\* due until it is drawn, and is drawn when the next iteration reaches its
\* redraw decision.
C20_RedrawNotStarved ==
    /\ dirty ~> (~dirty \/ Terminated)
    /\ [](pc = "input" /\ first_event_time # None =>
             first_event_time < SUSTAINED_IO_REDRAW_LATENCY)
    /\ [][pc = "redraw" /\ sustained_io => Drew \/ pc' = "failed"]_vars
    /\ [][pc = "redraw" /\ dirty /\ ~Drew /\ pc' # "failed" =>
             slept' /\ dirty' /\ last_drawn' = REDRAW_LATENCY]_vars
    /\ [][dirty /\ last_drawn = REDRAW_LATENCY /\ ~Drew =>
             dirty' /\ last_drawn' = REDRAW_LATENCY]_vars
    /\ [][pc = "redraw" /\ dirty /\ last_drawn = REDRAW_LATENCY =>
             Drew \/ pc' = "failed"]_vars

\* with every counted key used up, a burst of further keys was cut short and
\* the same iteration, not the first one, drew the frame
C20_Witness ==
    /\ keys_read = MaxKeys
    /\ sustained_io
    /\ iter.keys >= 2
    /\ iter.draws = 1
    /\ ~dirty
    /\ iter.slept_before = 1

====
